---- MODULE Spec2Model ----
(***************************************************************************)
(* Model of the quic_geyser plugin's broker pipeline:                      *)
(*   - QuicGeyserPlugin (plugin/src/quic_plugin.rs): the host callbacks    *)
(*     that fan events out to the broker channel (mq_sender), the block    *)
(*     builder channel, the rpc-server channel and the QUIC server;        *)
(*   - run_lavin_mq_loop (plugin/src/lavin_mq_loop.rs): the publisher      *)
(*     thread that connects, declares the queues and publishes each event  *)
(*     it receives from the broker channel;                                *)
(*   - the stand-alone harness of plugin/tests/test_lavin_mq_loop.rs,      *)
(*     which feeds the loop directly through an mpsc channel.              *)
(* The AMQP broker, the QUIC server and the block builder are the          *)
(* environment: every result they can hand back is a nondeterministic      *)
(* choice.                                                                 *)
(***************************************************************************)
EXTENDS Naturals, Integers, Sequences, FiniteSets, TLC

(***************************************************************************)
(* Bounds of the model.                                                    *)
(***************************************************************************)
\* events the test harness may send on the channel
MaxEvents == 2
\* failures the broker may inject while the harness drives the loop
MaxFailures == 2
\* events the plugin callbacks may place on the broker channel
MaxPluginEvents == 1
\* failures the broker may inject while the plugin drives the loop
MaxPluginFailures == 1
\* account keys of a notified transaction
MaxKeys == 1

(***************************************************************************)
(* Program constants.                                                      *)
(***************************************************************************)
\* sleep(Duration::from_secs(5))
RetryDelaySecs == 5

\* the queues declared after every connect, in declaration order
QueueNames == <<"transactions", "accountChanges", "blockMeta">>

\* ChannelMessage variants the loop publishes, and the ones it only logs
PublishKinds == {"Transaction", "Account", "BlockMeta"}
OtherKinds == {"Slot"}
Kinds == PublishKinds \cup OtherKinds

\* what lapin hands back for one publish: the call or the confirmation
\* failing ("Err"), or a Confirmation value
Confirmations == {"Ack", "Nack", "NotRequested"}
PublishOutcomes == {"Err"} \cup Confirmations

VARIABLES
    mode,           \* "test": harness of test_lavin_mq_loop.rs; "plugin": QuicGeyserPlugin
    \* ---- the broker channel (std::sync::mpsc) ----
    sentLog,        \* every event enqueued on the broker channel, in send order
    taken,          \* how many of them mq_rx.recv() has handed to the loop
    mq_sender,      \* "None" | "Some" | "Dropped": the channel's only Sender
    \* ---- run_lavin_mq_loop ----
    pc,             \* position of the publisher thread
    conn,           \* id of the connection held (0: none)
    connId,         \* connections opened so far
    declared,       \* queues declared on the channel of conn
    msg,            \* index in sentLog of the event in hand (0: none)
    topic,          \* queue name of the publish in flight ("": none)
    published,      \* log of publish attempts: [id, topic, conn, outcome, ok]
    attempts,       \* Connection::connect calls so far
    waited,         \* seconds slept so far
    failures,       \* failures the broker has injected so far
    connFails,      \* of which failed connects
    failConns,      \* connections on which a declare or publish failed
    \* ---- QuicGeyserPlugin ----
    quic_server,                \* TRUE: Some(QuicServer)
    cfg,                        \* quic_plugin_config of the loaded server
    block_builder_channel,      \* TRUE: Some(Sender)
    rpc_server_message_channel, \* TRUE: Some(Sender)
    bbAlive,                    \* the block builder thread still holds its Receiver
    last            \* the last host callback: its inputs, its result, its sends,
                    \* whether the plugin was loaded, the index in sentLog of
                    \* the event it enqueued (0: none)

loopVars == <<pc, conn, connId, declared, msg, topic, published,
              attempts, waited, failures, connFails, failConns>>
chanVars == <<sentLog, taken, mq_sender>>
pluginVars == <<quic_server, cfg, block_builder_channel,
                rpc_server_message_channel, bbAlive, last>>
vars == <<mode, chanVars, loopVars, pluginVars>>

(***************************************************************************)
(* The broker channel.                                                     *)
(***************************************************************************)
Event(k, s) == [kind |-> k, ser |-> s]

\* events waiting in the channel
Queue == SubSeq(sentLog, taken + 1, Len(sentLog))

\* the Receiver mq_rx lives from the spawn of the thread until the thread ends
RxAlive == pc \notin {"idle", "done", "panicked"}

FailBound == IF mode = "test" THEN MaxFailures ELSE MaxPluginFailures
EventBound == IF mode = "test" THEN MaxEvents ELSE MaxPluginEvents

\* the result of one callback: what it returns and what each send did
Outcome(op, ret, mq, bb, rpc, quic) ==
    [op |-> op, ret |-> ret, mq |-> mq, bb |-> bb, rpc |-> rpc, quic |-> quic]

Returned(op, ret) == Outcome(op, ret, "skip", "skip", "skip", "skip")

NoArgs == [version |-> "", owner |-> "", is_startup |-> FALSE,
           account_keys |-> {}, txErr |-> FALSE]

NoLast == [call |-> Returned("none", "Ok"), args |-> NoArgs, loaded |-> FALSE,
           enq |-> 0]

DefaultCfg == [allow_accounts |-> FALSE, allow_accounts_at_startup |-> FALSE]

\* variant: the confirmation is not inspected, a nack passes for a success
publish_message_unchecked(outcome) ==
    IF outcome = "Err" THEN "Err" ELSE "Ok"

(***************************************************************************)
(* publish_message: Err of either await is propagated, a nack becomes an   *)
(* error, everything else is Ok.                                           *)
(***************************************************************************)
publish_message(outcome) ==
    IF outcome = "Err" THEN "Err"
    ELSE IF outcome = "Nack" THEN "Err"
    ELSE "Ok"

\* variant: a failed connect is retried at once, without the sleep
OnConnect_nosleep(ok) == IF ok THEN "create_channel" ELSE "connect"

\* Connection::connect: Ok(c) => c; Err => sleep, continue 'outer
OnConnect(ok) == IF ok THEN "create_channel" ELSE "sleep"

\* variant: a serialization failure takes the recovery path of a publish failure
OnSerialize_reconnects(ok) == IF ok THEN "publish" ELSE "sleep"

\* serde_json::to_vec: Ok(p) => p, publish; Err => log, continue (next recv)
OnSerialize(ok) == IF ok THEN "publish" ELSE "recv"

\* variant: a failed publish is logged and the loop goes on with the next
\* event on the same connection
OnPublish_continue(result) == "recv"

\* variant: after a failed publish the loop reconnects at once
OnPublish_nosleep(result) == IF result = "Ok" THEN "recv" ELSE "connect"

\* if let Err(e) = publish_message(..) { sleep; continue 'outer }
OnPublish(result) == IF result = "Ok" THEN "recv" ELSE "sleep"

\* variant: recv() fails as soon as the Sender is dropped, queued events or not
RecvResult_eager(queued, senderGone) ==
    IF senderGone THEN "Err" ELSE IF queued > 0 THEN "Ok" ELSE "Block"

\* mq_rx.recv(): the next event while one is queued; Err once the queue is
\* empty and the Sender is dropped; blocks otherwise
RecvResult(queued, senderGone) ==
    IF queued > 0 THEN "Ok" ELSE IF senderGone THEN "Err" ELSE "Block"

\* variant: recv() hands the event it handed over last once more
RecvNext_again(t, n) == IF t = 0 THEN 1 ELSE t

\* variant: recv() hands over the newest queued event
RecvNext_newest(t, n) == n

\* mq_rx.recv() hands over the oldest event still queued: the channel is FIFO
RecvNext(t, n) == t + 1

\* variant: the account arm and the block arm publish to each other's queue
TopicOf_crossed(kind) ==
    CASE kind = "Transaction" -> "transactions"
      [] kind = "Account"     -> "blockMeta"
      [] kind = "BlockMeta"   -> "accountChanges"

\* the queue each arm of the match publishes to
TopicOf(kind) ==
    CASE kind = "Transaction" -> "transactions"
      [] kind = "Account"     -> "accountChanges"
      [] kind = "BlockMeta"   -> "blockMeta"

(***************************************************************************)
(* Initial states: the harness has created the channel and spawned the     *)
(* loop's thread; or the plugin has just been created by _create_plugin.   *)
(***************************************************************************)
InitLoop ==
    /\ conn = 0 /\ connId = 0 /\ declared = 0 /\ msg = 0 /\ topic = ""
    /\ published = <<>> /\ attempts = 0 /\ waited = 0
    /\ failures = 0 /\ connFails = 0 /\ failConns = {}

InitPlugin ==
    /\ quic_server = FALSE /\ cfg = DefaultCfg
    /\ block_builder_channel = FALSE /\ rpc_server_message_channel = FALSE
    /\ bbAlive = FALSE /\ last = NoLast

\* test_lavin_mq_loop.rs: the channel exists and the loop's thread is spawned
InitTest ==
    /\ sentLog = <<>> /\ taken = 0
    /\ InitLoop /\ InitPlugin
    /\ mode = "test" /\ mq_sender = "Some" /\ pc = "start"

\* QuicGeyserPlugin::default(): no channel, no thread
InitPluginMode ==
    /\ sentLog = <<>> /\ taken = 0
    /\ InitLoop /\ InitPlugin
    /\ mode = "plugin" /\ mq_sender = "None" /\ pc = "idle"

(***************************************************************************)
(* The publisher thread.                                                   *)
(***************************************************************************)
\* the thread builds its tokio runtime and enters run_lavin_mq_loop
ThreadStart ==
    /\ pc = "start"
    /\ pc' = "connect"
    /\ UNCHANGED <<mode, chanVars, conn, connId, declared, msg, topic,
                   published, attempts, waited, failures, connFails, failConns,
                   pluginVars>>

\* building the runtime fails: expect()/unwrap() panics, mq_rx is dropped
ThreadPanic ==
    /\ pc = "start"
    /\ pc' = "panicked"
    /\ UNCHANGED <<mode, chanVars, conn, connId, declared, msg, topic,
                   published, attempts, waited, failures, connFails, failConns,
                   pluginVars>>

\* 1) Connection::connect
Connect ==
    /\ pc = "connect"
    /\ attempts' = attempts + 1
    /\ \/ /\ connId' = connId + 1
          /\ conn' = connId + 1
          /\ pc' = OnConnect(TRUE)
          /\ UNCHANGED <<failures, connFails>>
       \/ /\ failures < FailBound
          /\ failures' = failures + 1
          /\ connFails' = connFails + 1
          /\ pc' = OnConnect(FALSE)
          /\ UNCHANGED <<connId, conn>>
    /\ UNCHANGED <<mode, chanVars, declared, msg, topic, published,
                   waited, failConns, pluginVars>>

\* 2) conn.create_channel
CreateChannel ==
    /\ pc = "create_channel"
    /\ \/ /\ pc' = "declare"
          /\ UNCHANGED <<failures, failConns>>
       \/ /\ failures < FailBound
          /\ failures' = failures + 1
          /\ failConns' = failConns \cup {conn}
          /\ pc' = "sleep"
    /\ UNCHANGED <<mode, chanVars, conn, connId, declared, msg, topic,
                   published, attempts, waited, connFails, pluginVars>>

\* 3) channel.queue_declare for the next queue of QueueNames
QueueDeclare ==
    /\ pc = "declare"
    /\ declared < Len(QueueNames)
    /\ \/ /\ declared' = declared + 1
          /\ pc' = IF declared + 1 = Len(QueueNames) THEN "recv" ELSE "declare"
          /\ UNCHANGED <<failures, failConns>>
       \/ /\ failures < FailBound
          /\ failures' = failures + 1
          /\ failConns' = failConns \cup {conn}
          /\ pc' = "sleep"
          /\ UNCHANGED declared
    /\ UNCHANGED <<mode, chanVars, conn, connId, msg, topic, published,
                   attempts, waited, connFails, pluginVars>>

\* sleep(5s); continue 'outer: conn and channel go out of scope
Sleep ==
    /\ pc = "sleep"
    /\ waited' = waited + RetryDelaySecs
    /\ pc' = "connect"
    /\ conn' = 0
    /\ declared' = 0
    /\ msg' = 0
    /\ topic' = ""
    /\ UNCHANGED <<mode, chanVars, connId, published, attempts,
                   failures, connFails, failConns, pluginVars>>

\* 4) while let Ok(msg) = mq_rx.recv(): take the next event, or leave the
\*    loop and return Ok(()) when recv() is Err
Recv ==
    /\ pc = "recv"
    /\ LET r == RecvResult(Len(sentLog) - taken, mq_sender = "Dropped") IN
       \/ /\ r = "Ok"
          /\ taken' = taken + 1
          /\ msg' = RecvNext(taken, Len(sentLog))
          /\ pc' = "match"
          /\ UNCHANGED <<conn, declared>>
       \/ /\ r = "Err"
          /\ pc' = "done"
          /\ conn' = 0
          /\ declared' = 0
          /\ UNCHANGED <<taken, msg>>
    /\ UNCHANGED <<mode, sentLog, mq_sender, connId, topic, published,
                   attempts, waited, failures, connFails, failConns, pluginVars>>

\* match msg: serialize the event and call publish_message, or skip it
MatchMsg ==
    /\ pc = "match"
    /\ LET ev == sentLog[msg] IN
       IF ev.kind \in PublishKinds
       THEN /\ pc' = OnSerialize(ev.ser)
            /\ IF OnSerialize(ev.ser) = "publish"
               THEN topic' = TopicOf(ev.kind) /\ UNCHANGED msg
               ELSE msg' = 0 /\ UNCHANGED topic
       ELSE /\ pc' = "recv"
            /\ msg' = 0
            /\ UNCHANGED topic
    /\ UNCHANGED <<mode, chanVars, conn, connId, declared, published,
                   attempts, waited, failures, connFails, failConns, pluginVars>>

\* the two awaits of publish_message resolve
PublishConfirm ==
    /\ pc = "publish"
    /\ \E outcome \in PublishOutcomes :
        /\ outcome \in {"Err", "Nack"} => failures < FailBound
        /\ published' = Append(published,
                [id |-> msg, topic |-> topic, conn |-> conn, outcome |-> outcome,
                 ok |-> publish_message(outcome) = "Ok"])
        /\ pc' = OnPublish(publish_message(outcome))
        /\ failures' = IF outcome \in {"Err", "Nack"} THEN failures + 1 ELSE failures
        /\ failConns' = IF outcome \in {"Err", "Nack"}
                        THEN failConns \cup {conn} ELSE failConns
    /\ msg' = 0
    /\ topic' = ""
    /\ UNCHANGED <<mode, chanVars, conn, connId, declared, attempts, waited,
                   connFails, pluginVars>>

(***************************************************************************)
(* The harness of test_lavin_mq_loop.rs.                                   *)
(***************************************************************************)
\* tx.send(channel_msg).expect(..): the event is enqueued while the loop's
\* Receiver lives; otherwise the harness panics and its Sender is dropped
HarnessSend ==
    /\ mode = "test"
    /\ mq_sender = "Some"
    /\ Len(sentLog) < EventBound
    /\ \E k \in Kinds, s \in BOOLEAN :
        IF RxAlive
        THEN /\ sentLog' = Append(sentLog, Event(k, s))
             /\ UNCHANGED mq_sender
        ELSE /\ mq_sender' = "Dropped"
             /\ UNCHANGED sentLog
    /\ UNCHANGED <<mode, taken, loopVars, pluginVars>>

\* drop(tx)
HarnessDrop ==
    /\ mode = "test"
    /\ mq_sender = "Some"
    /\ mq_sender' = "Dropped"
    /\ UNCHANGED <<mode, sentLog, taken, loopVars, pluginVars>>

(***************************************************************************)
(* QuicGeyserPlugin.                                                       *)
(***************************************************************************)
\* the allow-list literals of update_account and of notify_transaction
pump_pubkeys_account ==
    {"EEZZatWNPPsihctMcbmSSSHc5VjMbiSNGBKhyCprzYVo",
     "EBMXMDVLK2ZqC3UGRsbUeSBALf34JERK72xA8Y26iBGN",
     "bondxMyykdWLUZdBL8YWT2nXi9UhRNaVwcVuQxFuYwN"}

pump_pubkeys_transaction ==
    {"6EF8rrecthR5Dkzon8Nwu78hRvfCKubJ14M5uBEwF6P",
     "EEZZatWNPPsihctMcbmSSSHc5VjMbiSNGBKhyCprzYVo",
     "whirLbMiicVdio4qvUfM5KAg6Ct8VwpYzGff3uctyCc",
     "675kPX9MHTjS2zt1qfr1NYHuzeLXfQM9H24wFSUt1Mp8",
     "LBUZKhRxPF3XUpBCjp4YzTKgLccjZhTSDM9YuVaPwxo",
     "EBMXMDVLK2ZqC3UGRsbUeSBALf34JERK72xA8Y26iBGN",
     "bondxMyykdWLUZdBL8YWT2nXi9UhRNaVwcVuQxFuYwN"}

\* the addresses the host's notifications are drawn from: one of both lists,
\* one of the transaction list only, one of neither
Addrs ==
    {"EEZZatWNPPsihctMcbmSSSHc5VjMbiSNGBKhyCprzYVo",
     "6EF8rrecthR5Dkzon8Nwu78hRvfCKubJ14M5uBEwF6P",
     "11111111111111111111111111111111"}

\* the variants of the host's versioned notification types
AccountVersions == {"V0_0_1", "V0_0_2", "V0_0_3"}
TransactionVersions == {"V0_0_1", "V0_0_2"}
BlockInfoVersions == {"V0_0_1", "V0_0_2", "V0_0_3", "V0_0_4"}

\* the account-key lists of the transactions the host notifies
AccountKeySets == {ks \in SUBSET Addrs : Cardinality(ks) <= MaxKeys}

Configs == [allow_accounts : BOOLEAN, allow_accounts_at_startup : BOOLEAN,
            enable_block_builder : BOOLEAN]

\* std::sync::mpsc::Sender::send: Err when the Receiver is gone
ChannelSend(some, alive) ==
    IF ~some THEN "skip" ELSE IF alive THEN "ok" ELSE "failed"

\* quic_server.send_message(..).map_err(..)?; Ok(())
QuicSend(quicOk) == IF quicOk THEN "Ok" ELSE "Err"

\* variant: the QUIC send is made first and its error returned before the
\* other sends
FanOut_quic_first(op, toMq, toRpc, quicOk) ==
    IF ~quicOk
    THEN Outcome(op, "Err", "skip", "skip", "skip", "failed")
    ELSE Outcome(op, "Ok",
                 IF toMq THEN ChannelSend(mq_sender = "Some", RxAlive) ELSE "skip",
                 ChannelSend(block_builder_channel, bbAlive),
                 IF toRpc THEN ChannelSend(rpc_server_message_channel, FALSE)
                          ELSE "skip",
                 "ok")

\* variant: a failed send on the broker channel ends the callback at once
FanOut_abort(op, toMq, toRpc, quicOk) ==
    IF toMq /\ ChannelSend(mq_sender = "Some", RxAlive) = "failed"
    THEN Outcome(op, "Ok", "failed", "skip", "skip", "skip")
    ELSE Outcome(op, QuicSend(quicOk),
                 IF toMq THEN ChannelSend(mq_sender = "Some", RxAlive) ELSE "skip",
                 ChannelSend(block_builder_channel, bbAlive),
                 IF toRpc THEN ChannelSend(rpc_server_message_channel, FALSE)
                          ELSE "skip",
                 IF quicOk THEN "ok" ELSE "failed")

\* variant: the error of a failed send on the broker channel is returned
FanOut_propagate(op, toMq, toRpc, quicOk) ==
    Outcome(op,
            IF toMq /\ ChannelSend(mq_sender = "Some", RxAlive) = "failed"
            THEN "Err" ELSE QuicSend(quicOk),
            IF toMq THEN ChannelSend(mq_sender = "Some", RxAlive) ELSE "skip",
            ChannelSend(block_builder_channel, bbAlive),
            IF toRpc THEN ChannelSend(rpc_server_message_channel, FALSE)
                     ELSE "skip",
            IF quicOk THEN "ok" ELSE "failed")

\* the sends that end a callback: to the broker channel (its error is logged),
\* to the block builder and rpc-server channels (their errors are dropped),
\* then to the QUIC server, whose error alone is returned. Nobody sets
\* rpc_server_message_channel, so its Receiver is never alive.
FanOut(op, toMq, toRpc, quicOk) ==
    Outcome(op, QuicSend(quicOk),
            IF toMq THEN ChannelSend(mq_sender = "Some", RxAlive) ELSE "skip",
            ChannelSend(block_builder_channel, bbAlive),
            IF toRpc THEN ChannelSend(rpc_server_message_channel, FALSE)
                     ELSE "skip",
            IF quicOk THEN "ok" ELSE "failed")

\* if !allow_accounts || (is_startup && !allow_accounts_at_startup) { return Ok }
AccountsDisabled(is_startup) ==
    \/ ~cfg.allow_accounts
    \/ (is_startup /\ ~cfg.allow_accounts_at_startup)

\* variant: the owner is looked up in the list of notify_transaction
AccountFilter_other_list(owner) == owner \in pump_pubkeys_transaction

\* pump_pubkeys.contains(&owner)
AccountFilter(owner) == owner \in pump_pubkeys_account

\* variant: the account keys are looked up in the list of update_account
TransactionFilter_other_list(account_keys) ==
    (pump_pubkeys_account \cap account_keys) # {}

\* pump_pubkeys.iter().any(|key| account_keys.contains(key))
TransactionFilter(account_keys) == (pump_pubkeys_transaction \cap account_keys) # {}

\* variant: the version of the account notification is not checked
update_account_any_version(version, owner, is_startup, quicOk) ==
    IF ~quic_server THEN Returned("update_account", "Ok")
    ELSE IF AccountsDisabled(is_startup) THEN Returned("update_account", "Ok")
    ELSE IF ~AccountFilter(owner) THEN Returned("update_account", "Ok")
    ELSE FanOut("update_account", TRUE, TRUE, quicOk)

update_account(version, owner, is_startup, quicOk) ==
    IF ~quic_server THEN Returned("update_account", "Ok")
    ELSE IF AccountsDisabled(is_startup) THEN Returned("update_account", "Ok")
    ELSE IF version # "V0_0_3" THEN Returned("update_account", "Err")
    ELSE IF ~AccountFilter(owner) THEN Returned("update_account", "Ok")
    ELSE FanOut("update_account", TRUE, TRUE, quicOk)

\* variant: the slot message is sent on the broker channel as well
update_slot_status_to_broker(quicOk) ==
    IF ~quic_server THEN Returned("update_slot_status", "Ok")
    ELSE FanOut("update_slot_status", TRUE, TRUE, quicOk)

update_slot_status(quicOk) ==
    IF ~quic_server THEN Returned("update_slot_status", "Ok")
    ELSE FanOut("update_slot_status", FALSE, TRUE, quicOk)

notify_transaction(version, account_keys, txErr, quicOk) ==
    IF ~quic_server THEN Returned("notify_transaction", "Ok")
    ELSE IF version # "V0_0_2" THEN Returned("notify_transaction", "Err")
    ELSE IF ~TransactionFilter(account_keys) THEN Returned("notify_transaction", "Ok")
    ELSE IF txErr THEN Returned("notify_transaction", "Ok")
    ELSE FanOut("notify_transaction", TRUE, FALSE, quicOk)

\* variant: the block is sent on although the plugin has no QUIC server
notify_block_metadata_unloaded(version, quicOk) ==
    FanOut("notify_block_metadata", TRUE, TRUE, quicOk)

\* variant: only the newest block info version is accepted
notify_block_metadata_newest(version, quicOk) ==
    IF ~quic_server THEN Returned("notify_block_metadata", "Ok")
    ELSE IF version # "V0_0_4" THEN Returned("notify_block_metadata", "Err")
    ELSE FanOut("notify_block_metadata", TRUE, TRUE, quicOk)

notify_block_metadata(version, quicOk) ==
    IF ~quic_server THEN Returned("notify_block_metadata", "Ok")
    ELSE FanOut("notify_block_metadata", TRUE, TRUE, quicOk)

\* the host holds the plugin from _create_plugin until it drops the Box
PluginLives == mode = "plugin" /\ mq_sender # "Dropped"

\* the QUIC server's answer matters only to a call that reaches send_message
QuicAnswers(r) == IF r.quic = "skip" THEN {TRUE} ELSE BOOLEAN

\* the effect of a callback on the broker channel and on the record of the call
Deliver(r, args, kind) ==
    /\ PluginLives
    /\ r.mq = "ok" => Len(sentLog) < EventBound
    /\ sentLog' = IF r.mq = "ok" THEN Append(sentLog, Event(kind, TRUE)) ELSE sentLog
    /\ last' = [call |-> r, args |-> args, loaded |-> quic_server,
                enq |-> IF r.mq = "ok" THEN Len(sentLog) + 1 ELSE 0]
    /\ UNCHANGED <<mode, taken, mq_sender, loopVars, quic_server, cfg,
                   block_builder_channel, rpc_server_message_channel, bbAlive>>

\* on_load: the config or the QUIC server fails to load, or the plugin is set
\* up and the publisher thread is spawned
OnLoad ==
    /\ mode = "plugin"
    /\ mq_sender = "None"
    /\ \/ /\ last' = [NoLast EXCEPT !.call = Returned("on_load", "Err")]
          /\ last # last'
          /\ UNCHANGED <<quic_server, cfg, block_builder_channel, bbAlive,
                         mq_sender, pc>>
       \/ \E c \in Configs :
          /\ cfg' = [allow_accounts |-> c.allow_accounts,
                     allow_accounts_at_startup |-> c.allow_accounts_at_startup]
          /\ quic_server' = TRUE
          /\ block_builder_channel' = c.enable_block_builder
          /\ bbAlive' = c.enable_block_builder
          /\ mq_sender' = "Some"
          /\ pc' = "start"
          /\ last' = [NoLast EXCEPT !.call = Returned("on_load", "Ok")]
    /\ UNCHANGED <<mode, sentLog, taken, conn, connId, declared, msg, topic,
                   published, attempts, waited, failures, connFails,
                   failConns, rpc_server_message_channel>>

\* variant: on_unload also clears mq_sender, which closes the broker channel
OnUnload_drops_sender ==
    /\ PluginLives
    /\ quic_server
    /\ quic_server' = FALSE
    /\ mq_sender' = "Dropped"
    /\ UNCHANGED <<mode, sentLog, taken, loopVars, cfg, block_builder_channel,
                   rpc_server_message_channel, bbAlive, last>>

\* on_unload: self.quic_server = None
OnUnload ==
    /\ PluginLives
    /\ quic_server
    /\ quic_server' = FALSE
    /\ UNCHANGED <<mode, chanVars, loopVars, cfg, block_builder_channel,
                   rpc_server_message_channel, bbAlive, last>>

\* the host drops the plugin value: its Senders and its server are dropped
\* with it, and no callback can be made any more
PluginDrop ==
    /\ PluginLives
    /\ mq_sender = "Some"
    /\ mq_sender' = "Dropped"
    /\ quic_server' = FALSE
    /\ cfg' = DefaultCfg
    /\ block_builder_channel' = FALSE
    /\ bbAlive' = FALSE
    /\ last' = NoLast
    /\ UNCHANGED <<mode, sentLog, taken, loopVars, rpc_server_message_channel>>

\* the block builder thread ends and drops its Receiver
BlockBuilderDies ==
    /\ mode = "plugin"
    /\ bbAlive
    /\ bbAlive' = FALSE
    /\ UNCHANGED <<mode, chanVars, loopVars, quic_server, cfg,
                   block_builder_channel, rpc_server_message_channel, last>>

UpdateAccount ==
    \E version \in AccountVersions, owner \in Addrs, is_startup \in BOOLEAN :
      \E quicOk \in QuicAnswers(update_account(version, owner, is_startup, TRUE)) :
        Deliver(update_account(version, owner, is_startup, quicOk),
                [NoArgs EXCEPT !.version = version, !.owner = owner,
                               !.is_startup = is_startup],
                "Account")

UpdateSlotStatus ==
    \E quicOk \in QuicAnswers(update_slot_status(TRUE)) :
        Deliver(update_slot_status(quicOk), NoArgs, "Slot")

NotifyTransaction ==
    \E version \in TransactionVersions, account_keys \in AccountKeySets,
       txErr \in BOOLEAN :
      \E quicOk \in QuicAnswers(notify_transaction(version, account_keys, txErr, TRUE)) :
        Deliver(notify_transaction(version, account_keys, txErr, quicOk),
                [NoArgs EXCEPT !.version = version, !.account_keys = account_keys,
                               !.txErr = txErr],
                "Transaction")

NotifyBlockMetadata ==
    \E version \in BlockInfoVersions :
      \E quicOk \in QuicAnswers(notify_block_metadata(version, TRUE)) :
        Deliver(notify_block_metadata(version, quicOk),
                [NoArgs EXCEPT !.version = version],
                "BlockMeta")

LoopNext ==
    \/ ThreadStart
    \/ ThreadPanic
    \/ Connect
    \/ CreateChannel
    \/ QueueDeclare
    \/ Sleep
    \/ Recv
    \/ MatchMsg
    \/ PublishConfirm

\* the loop fed by the harness of test_lavin_mq_loop.rs
Next ==
    \/ LoopNext
    \/ HarnessSend
    \/ HarnessDrop

Spec == InitTest /\ [][Next]_vars

\* the publisher thread keeps running and the broker keeps answering
FairSpec == Spec /\ WF_vars(LoopNext)

PluginActions ==
    \/ OnLoad
    \/ OnUnload
    \/ PluginDrop
    \/ BlockBuilderDies
    \/ UpdateAccount
    \/ UpdateSlotStatus
    \/ NotifyTransaction
    \/ NotifyBlockMetadata

\* the plugin's callbacks against a publisher thread that is spawned and then
\* either panics or stays suspended in Connection::connect: the callbacks
\* depend on the thread only through the life of its Receiver
PluginNext ==
    \/ ThreadStart
    \/ ThreadPanic
    \/ PluginActions

PluginSpec == InitPluginMode /\ [][PluginNext]_vars

\* the plugin's callbacks interleaved with every step of the publisher loop
SystemNext ==
    \/ LoopNext
    \/ PluginActions

SystemSpec == InitPluginMode /\ [][SystemNext]_vars

\* the two halves taken apart: the loop fed by the harness, or the plugin's
\* callbacks with the publisher thread suspended in its first connect
ComponentInit == InitTest \/ InitPluginMode

ComponentNext ==
    \/ mode = "test" /\ Next
    \/ mode = "plugin" /\ PluginNext

ComponentSpec == ComponentInit /\ [][ComponentNext]_vars

(***************************************************************************)
(* Properties of run_lavin_mq_loop.                                        *)
(***************************************************************************)
\* event j of the channel is of a published kind and serializes
Publishable(j) == sentLog[j].kind \in PublishKinds /\ sentLog[j].ser

Attempted(j) == \E i \in DOMAIN published : published[i].id = j

\* a publish of event j that the loop took for delivered
Delivered(j) == \E i \in DOMAIN published : published[i].id = j /\ published[i].ok

Ready == pc \in {"recv", "match", "publish"}

\* C1: after a publish that failed at the transport level or was negatively
\* acknowledged, the loop waits and is then Connecting: it takes or publishes
\* a further event only on a newer connection on which all queues are declared.
C1_PublishFailureReconnects ==
    \A i \in DOMAIN published :
        published[i].outcome \in {"Err", "Nack"} =>
            \/ i = Len(published) /\ pc = "sleep" /\ msg = 0
            \/ /\ conn # published[i].conn
               /\ Ready => /\ conn > published[i].conn
                           /\ conn = connId
                           /\ declared = Len(QueueNames)

\* a nack was followed by a reconnect and a further event is being published
C1_Witness ==
    \E i \in DOMAIN published :
        /\ published[i].outcome = "Nack"
        /\ pc = "publish"
        /\ conn > published[i].conn
        /\ waited = RetryDelaySecs

\* the loop's step on an event of a published kind that fails to serialize
C2_DiscardStep ==
    (/\ pc = "match"
     /\ pc' # pc
     /\ sentLog[msg].kind \in PublishKinds
     /\ ~sentLog[msg].ser)
    => /\ pc' = "recv"
       /\ conn' = conn /\ conn # 0 /\ connId' = connId
       /\ declared' = declared /\ declared = Len(QueueNames)
       /\ waited' = waited /\ attempts' = attempts
       /\ published' = published
       /\ taken' = taken /\ sentLog' = sentLog

\* C2: an event that fails to serialize is the only event discarded: the loop
\* stays in Ready on the same connection, without wait, reconnect or
\* re-declare, and every other serializable event taken while the broker
\* answers is still published.
C2_SerializeFailureSkipsOne ==
    /\ [][C2_DiscardStep]_vars
    /\ [](\A j \in 1..taken :
            (Publishable(j) /\ j # msg /\ failures = 0) => Delivered(j))

\* event 1 failed to serialize, event 2 was published on the same connection
C2_Witness ==
    /\ Len(sentLog) = 2
    /\ sentLog[1].kind \in PublishKinds /\ ~sentLog[1].ser
    /\ ~Attempted(1)
    /\ Delivered(2)
    /\ connId = 1 /\ waited = 0 /\ attempts = 1

\* C3: at-least-once delivery: when the loop has ended, every serializable
\* Transaction, Account or BlockMeta event it took from the channel has been
\* published with success at least once (read in the code's favour: any
\* publish the loop took for delivered counts).
C3_AtLeastOnce ==
    pc = "done" => \A j \in 1..taken : Publishable(j) => Delivered(j)

\* C4: while connects are the only thing that fails, the loop has slept the
\* fixed delay once per failed connect, has made one attempt per failure plus
\* the successful one, takes nothing from the channel before it is Ready, and
\* publishes the events in channel order without losing one.
C4_ReconnectConvergence ==
    failures = connFails =>
        /\ waited = RetryDelaySecs * (connFails - (IF pc = "sleep" THEN 1 ELSE 0))
        /\ attempts = connFails + connId
        /\ connId <= 1
        /\ connId = 0 => taken = 0 /\ msg = 0 /\ published = <<>>
        /\ Ready => connId = 1 /\ conn = 1 /\ declared = Len(QueueNames)
        /\ \A i, j \in DOMAIN published : i < j => published[i].id < published[j].id
        /\ \A j \in 1..taken : (Publishable(j) /\ j # msg) => Delivered(j)

\* two connects failed, the third succeeded, and both queued events were
\* published afterwards
C4_Witness ==
    /\ connFails = 2 /\ failures = 2 /\ attempts = 3
    /\ waited = 2 * RetryDelaySecs
    /\ Len(published) = 2

\* C5: once the Sender is dropped the running loop publishes what is queued
\* and returns: it ends only with the channel closed and empty, with every
\* serializable event published when the broker never failed, and, unless the
\* broker fails, it does end.
C5_ClosedChannelTermination ==
    /\ [](pc = "done" =>
            /\ mq_sender = "Dropped"
            /\ taken = Len(sentLog)
            /\ msg = 0
            /\ failures = 0 =>
                 \A j \in 1..Len(sentLog) : Publishable(j) => Delivered(j))
    /\ []((mq_sender = "Dropped" /\ pc \notin {"start", "panicked"})
            => <>(pc = "done" \/ failures > 0))

\* the loop has returned after publishing two events sent before the drop
C5_Witness ==
    /\ pc = "done"
    /\ failures = 0
    /\ Len(sentLog) = 2
    /\ Delivered(1) /\ Delivered(2)

\* C6: while the broker has been unreachable (no connect has succeeded yet),
\* once the channel is closed and empty the loop stops retrying: it makes no
\* further connect attempt.
C6_StopsRetryingWhenClosed ==
    [][(/\ mq_sender = "Dropped" /\ taken = Len(sentLog) /\ msg = 0
        /\ connId = 0 /\ connFails >= 1)
         => attempts' = attempts]_vars

\* the queue an event of this kind is to be published to
C7_Expected(kind, queue) ==
    \/ kind = "Transaction" /\ queue = "transactions"
    \/ kind = "Account" /\ queue = "accountChanges"
    \/ kind = "BlockMeta" /\ queue = "blockMeta"

\* C7: every publish goes to the queue of the event's kind, and no event is
\* published on two queues.
C7_TopicRouting ==
    /\ \A i \in DOMAIN published :
         C7_Expected(sentLog[published[i].id].kind, published[i].topic)
    /\ \A i, j \in DOMAIN published :
         published[i].id = published[j].id => published[i].topic = published[j].topic
    /\ pc = "publish" => C7_Expected(sentLog[msg].kind, topic)

\* an account update and a block were published, each to its own queue
C7_Witness ==
    \E i, j \in DOMAIN published :
        /\ sentLog[published[i].id].kind = "Account"
        /\ published[i].topic = "accountChanges"
        /\ sentLog[published[j].id].kind = "BlockMeta"
        /\ published[j].topic = "blockMeta"

(***************************************************************************)
(* Properties of the host callbacks.                                       *)
(***************************************************************************)
Callbacks == {"update_account", "update_slot_status", "notify_transaction",
              "notify_block_metadata"}

\* the callbacks that send to the broker channel
BrokerCallbacks == {"update_account", "notify_transaction", "notify_block_metadata"}

\* the last callback reached its sends: it attempted at least one of them
Dispatched ==
    /\ last.call.op \in Callbacks
    /\ \/ last.call.mq # "skip"
       \/ last.call.bb # "skip"
       \/ last.call.rpc # "skip"
       \/ last.call.quic # "skip"

\* C8: a dispatched event is sent on every configured channel it is routed
\* to, whatever the other sends did, and every channel whose Receiver is
\* alive has received it. (Receivers only die, so one alive now was alive
\* at the call.)
C8_FanOutIsolation ==
    Dispatched =>
        /\ last.call.op \in BrokerCallbacks =>
             /\ last.call.mq \in {"ok", "failed"}
             /\ RxAlive => last.call.mq = "ok"
        /\ last.call.mq = "ok" <=> last.enq # 0
        /\ block_builder_channel =>
             /\ last.call.bb \in {"ok", "failed"}
             /\ bbAlive => last.call.bb = "ok"
        /\ (rpc_server_message_channel /\ last.call.op # "notify_transaction")
             => last.call.rpc \in {"ok", "failed"}
        /\ last.call.quic \in {"ok", "failed"}

\* the publisher's Receiver was gone, the block builder still got the event
C8_Witness ==
    /\ Dispatched
    /\ last.call.mq = "failed"
    /\ last.call.bb = "ok"

\* the last callback got a notification of a version it does not support
UnsupportedVersion ==
    \/ last.call.op = "update_account" /\ last.args.version # "V0_0_3"
    \/ last.call.op = "notify_transaction" /\ last.args.version # "V0_0_2"

\* C9: in every state of the publisher a callback can run to completion, and
\* it returns an error only for an unsupported version or a failed QUIC send,
\* never for the broker or its channel.
C9_BrokerNeverSurfaces ==
    /\ (last.call.op \in Callbacks /\ last.call.ret = "Err")
          => (UnsupportedVersion \/ last.call.quic = "failed")
    /\ PluginLives => ENABLED UpdateSlotStatus
    /\ (PluginLives /\ Len(sentLog) < EventBound) =>
          /\ ENABLED UpdateAccount
          /\ ENABLED NotifyTransaction
          /\ ENABLED NotifyBlockMetadata

\* the publisher thread had ended, the send on its channel failed, and the
\* callback still returned Ok
C9_Witness ==
    /\ pc = "panicked"
    /\ last.call.op \in BrokerCallbacks
    /\ last.call.mq = "failed"
    /\ last.call.ret = "Ok"

\* C10 as claimed: on a loaded plugin update_account enqueues an Account event
\* exactly when the owner is in the allow-list.
C10_AccountFilterOnly ==
    (last.call.op = "update_account" /\ last.loaded) =>
        (last.enq # 0 <=> last.args.owner \in pump_pubkeys_account)

\* the configuration and the version let the account update through
C10_Admitted ==
    /\ cfg.allow_accounts
    /\ last.args.is_startup => cfg.allow_accounts_at_startup
    /\ last.args.version = "V0_0_3"

\* C10 amended: on a loaded plugin update_account sends an Account event on
\* the broker channel exactly when accounts are enabled for this update, the
\* notification is of version V0_0_3 and the owner is in the allow-list; the
\* event is enqueued unless the publisher thread has ended.
C10_AccountFilterGated ==
    (last.call.op = "update_account" /\ last.loaded) =>
        /\ last.call.mq \in {"ok", "failed"}
             <=> (C10_Admitted /\ last.args.owner \in pump_pubkeys_account)
        /\ last.call.mq = "ok" <=> last.enq # 0
        /\ last.enq # 0 => sentLog[last.enq].kind = "Account"
        /\ (RxAlive /\ C10_Admitted /\ last.args.owner \in pump_pubkeys_account)
             => last.enq # 0

\* a startup update of an allow-listed owner was enqueued
C10_Witness ==
    /\ last.call.op = "update_account"
    /\ last.args.is_startup
    /\ last.args.owner \in pump_pubkeys_account
    /\ last.enq # 0
    /\ sentLog[last.enq].kind = "Account"

\* the last callback sent its event on the broker channel: the event is
\* enqueued whenever the publisher's Receiver lives
SentToBroker == last.call.mq \in {"ok", "failed"}

\* the transaction of the last callback has a key of notify_transaction's
\* allow-list and no execution error
C11_Forwardable ==
    /\ (last.args.account_keys \cap pump_pubkeys_transaction) # {}
    /\ ~last.args.txErr

\* C11 as claimed: on a loaded plugin notify_transaction sends a Transaction
\* event on the broker channel exactly when a key of the message is in the
\* allow-list and the transaction has no execution error.
C11_TransactionFilterOnly ==
    (last.call.op = "notify_transaction" /\ last.loaded) =>
        (SentToBroker <=> C11_Forwardable)

\* C11 amended: on a loaded plugin notify_transaction sends a Transaction
\* event on the broker channel exactly when the notification is of version
\* V0_0_2, a key of the message is in the allow-list and the transaction has
\* no execution error; a transaction with an execution error is never sent.
C11_TransactionFilterVersioned ==
    (last.call.op = "notify_transaction" /\ last.loaded) =>
        /\ SentToBroker <=> (last.args.version = "V0_0_2" /\ C11_Forwardable)
        /\ last.args.txErr => (~SentToBroker /\ last.enq = 0)
        /\ last.call.mq = "ok" <=> last.enq # 0
        /\ last.enq # 0 => sentLog[last.enq].kind = "Transaction"
        /\ (RxAlive /\ SentToBroker) => last.enq # 0

\* a transaction with an allow-listed key and no error was enqueued
C11_Witness ==
    /\ last.call.op = "notify_transaction"
    /\ last.loaded
    /\ C11_Forwardable
    /\ last.enq # 0
    /\ sentLog[last.enq].kind = "Transaction"

\* the configuration and the version let the last callback's notification through
Admitted ==
    \/ last.call.op = "update_account" /\ C10_Admitted
    \/ last.call.op = "notify_transaction" /\ last.args.version = "V0_0_2"

\* C12: the filter and the failed-transaction exclusion restrict the broker
\* channel only: every account update and transaction a loaded plugin
\* receives is sent to the block builder (when configured), the rpc server
\* (when configured) and the QUIC server, allow-listed or not, failed or not.
\* (Read for the notifications the configuration and the version admit.)
C12_FilterIsBrokerOnly ==
    (last.loaded /\ Admitted) =>
        /\ last.call.quic \in {"ok", "failed"}
        /\ block_builder_channel => last.call.bb \in {"ok", "failed"}
        /\ (rpc_server_message_channel /\ last.call.op = "update_account")
             => last.call.rpc \in {"ok", "failed"}

\* C13: the loop publishes the events in the order they were sent on the
\* channel: the event in hand is the last one taken, every publish is of one
\* event, later than every event published before it, and nothing is
\* published out of turn across reconnects and discarded events.
C13_PublishOrder ==
    /\ \A i, j \in DOMAIN published :
          i < j => published[i].id < published[j].id
    /\ \A i \in DOMAIN published : published[i].id \in 1..taken
    /\ msg # 0 =>
          /\ msg = taken
          /\ \A i \in DOMAIN published : published[i].id < msg

\* two events were published in send order, on either side of a reconnect
C13_Witness ==
    /\ Len(published) = 2
    /\ published[1].id = 1 /\ published[2].id = 2
    /\ published[1].conn # published[2].conn

\* C14: the channel is in confirm mode, so a publish the loop takes for
\* delivered (after which it returns to Ready) is one the broker has
\* positively acknowledged.
C14_AckedBeforeReady ==
    \A i \in DOMAIN published :
        published[i].ok => published[i].outcome = "Ack"

\* C15: a callback returns a failure to the host only for a notification of
\* an unsupported version; no downstream consumer, the QUIC transport
\* included, turns its result into an error.
C15_ErrOnlyForVersion ==
    (last.call.op \in Callbacks /\ last.call.ret = "Err") => UnsupportedVersion

\* the loop's step on an event of a kind it does not publish
C16_IgnoreStep ==
    (/\ pc = "match"
     /\ pc' # pc
     /\ sentLog[msg].kind \notin PublishKinds)
    => /\ pc' = "recv"
       /\ conn' = conn /\ conn # 0 /\ connId' = connId
       /\ declared' = declared /\ declared = Len(QueueNames)
       /\ waited' = waited /\ attempts' = attempts
       /\ published' = published
       /\ taken' = taken /\ sentLog' = sentLog

\* C16: slot events are never published: update_slot_status sends nothing on
\* the broker channel, and an event of another kind than Transaction, Account
\* or BlockMeta that the loop receives is ignored: the loop stays in Ready on
\* the same connection, without wait or reconnect, publishes nothing for it
\* and still publishes the events that follow.
C16_SlotNeverPublished ==
    /\ [][C16_IgnoreStep]_vars
    /\ [](\A i \in DOMAIN published :
            sentLog[published[i].id].kind \in PublishKinds)
    /\ [](pc = "publish" => sentLog[msg].kind \in PublishKinds)
    /\ [](\A j \in 1..taken :
            (Publishable(j) /\ j # msg /\ failures = 0) => Delivered(j))
    /\ [](last.call.op = "update_slot_status" =>
            /\ last.call.mq = "skip"
            /\ last.enq = 0)
    /\ [](mode = "plugin" =>
            \A j \in DOMAIN sentLog : sentLog[j].kind # "Slot")

\* the loop received a slot event, published nothing for it, and published
\* the next event on the same connection without waiting
C16_Witness ==
    /\ Len(sentLog) = 2
    /\ sentLog[1].kind = "Slot"
    /\ ~Attempted(1)
    /\ Delivered(2)
    /\ connId = 1 /\ waited = 0 /\ attempts = 1

\* a publish is made on the connection opened last, with all queues declared
C17_PublishStep ==
    Len(published') > Len(published) =>
        /\ published'[Len(published')].conn = connId
        /\ conn = connId /\ conn # 0
        /\ declared = Len(QueueNames)
        /\ conn \notin failConns

\* a failure ends in the wait, and the wait in a connect without connection
C17_FailureStep ==
    /\ failures' > failures => pc' = "sleep"
    /\ (pc = "sleep" /\ pc' # pc) =>
          (pc' = "connect" /\ conn' = 0 /\ declared' = 0)

\* C17: every publish is made on the most recently opened connection after
\* all three queues were declared on it; a connection on which a declare or a
\* publish failed is never used again: the loop waits and connects anew.
C17_FreshDeclaredConnection ==
    /\ [][C17_PublishStep /\ C17_FailureStep]_vars
    /\ [](Ready => /\ conn = connId /\ conn # 0
                   /\ declared = Len(QueueNames)
                   /\ conn \notin failConns)
    /\ [](conn \in failConns => pc = "sleep")
    /\ [](\A i, j \in DOMAIN published :
            i < j => /\ published[i].conn <= published[j].conn
                     /\ published[i].outcome \in {"Err", "Nack"}
                          => published[i].conn < published[j].conn)

\* the first connection failed after it was opened, and an event was
\* published on the second
C17_Witness ==
    /\ failConns = {1}
    /\ \E i \in DOMAIN published : published[i].conn = 2 /\ published[i].ok

\* C18: every connect attempt after a failure comes after exactly one wait of
\* RetryDelaySecs: each failure of any kind is followed by one wait, the
\* attempts after the first are as many as the waits, and a wait is always
\* RetryDelaySecs long.
C18_FixedWait ==
    /\ [][\/ waited' = waited
          \/ (pc = "sleep" /\ waited' = waited + RetryDelaySecs)]_vars
    /\ [](waited = RetryDelaySecs * (failures - (IF pc = "sleep" THEN 1 ELSE 0)))
    /\ [](pc = "sleep" => failures >= 1)
    /\ [](attempts * RetryDelaySecs =
            waited + (IF pc \in {"start", "connect", "panicked"}
                      THEN 0 ELSE RetryDelaySecs))

\* a failed connect and a nack, each followed by one wait, then a third attempt
C18_Witness ==
    /\ connFails = 1
    /\ \E i \in DOMAIN published : published[i].outcome = "Nack"
    /\ waited = 2 * RetryDelaySecs
    /\ attempts = 3

\* the last callback sent nothing to any consumer
NothingSent ==
    /\ last.call.mq = "skip" /\ last.call.bb = "skip"
    /\ last.call.rpc = "skip" /\ last.call.quic = "skip"
    /\ last.enq = 0

\* C19 as claimed: on a loaded plugin, under every configuration, an
\* update_account or notify_transaction notification of an unsupported
\* version is answered with an error and sent to no consumer.
C19_UnsupportedVersionRejected ==
    (last.loaded /\ UnsupportedVersion) =>
        (last.call.ret = "Err" /\ NothingSent)

\* C19 amended: the same for notify_transaction, and for update_account when
\* the configuration enables accounts for this update; an account update the
\* configuration disables is answered Ok whatever its version, and sent to
\* no consumer.
C19_UnsupportedVersionGated ==
    (last.loaded /\ UnsupportedVersion) =>
        /\ NothingSent
        /\ last.call.op = "notify_transaction" => last.call.ret = "Err"
        /\ last.call.op = "update_account" =>
             (last.call.ret = "Err" <=>
                 (cfg.allow_accounts /\
                  (last.args.is_startup => cfg.allow_accounts_at_startup)))
        /\ last.call.ret \in {"Ok", "Err"}

\* an account update of an old version, enabled by the configuration, was
\* answered with an error
C19_Witness ==
    /\ last.loaded
    /\ last.call.op = "update_account"
    /\ last.args.version = "V0_0_1"
    /\ cfg.allow_accounts
    /\ last.call.ret = "Err"
    /\ NothingSent

\* C20: no filter applies to block metadata: on a loaded plugin every
\* notify_block_metadata, whatever the version, sends one BlockMeta event on
\* the broker channel, which is enqueued once while the publisher's Receiver
\* lives.
C20_BlockMetaUnfiltered ==
    /\ [][Len(sentLog') <= Len(sentLog) + 1]_vars
    /\ []((last.call.op = "notify_block_metadata" /\ last.loaded) =>
            /\ SentToBroker
            /\ RxAlive => last.enq # 0
            /\ last.call.mq = "ok" <=> last.enq # 0
            /\ last.enq # 0 =>
                 /\ last.enq = Len(sentLog)
                 /\ sentLog[last.enq].kind = "BlockMeta")

\* a block of the oldest version was enqueued
C20_Witness ==
    /\ last.call.op = "notify_block_metadata"
    /\ last.loaded
    /\ last.args.version = "V0_0_1"
    /\ last.enq # 0
    /\ sentLog[last.enq].kind = "BlockMeta"

\* C21: accounts and transactions are filtered against the same allow-list:
\* an account update of owner X (enabled by the configuration, of the
\* supported version) is sent on the broker channel exactly when a
\* transaction whose only key is X passes the transaction filter, and a
\* successful transaction whose only key is X is sent exactly when an account
\* update of owner X passes the account filter.
C21_SameAllowList ==
    /\ (last.call.op = "update_account" /\ last.loaded /\ C10_Admitted) =>
          (SentToBroker <=> TransactionFilter({last.args.owner}))
    /\ (/\ last.call.op = "notify_transaction" /\ last.loaded
        /\ last.args.version = "V0_0_2" /\ ~last.args.txErr
        /\ Cardinality(last.args.account_keys) = 1) =>
          \A X \in last.args.account_keys : SentToBroker <=> AccountFilter(X)

\* the publish attempts made for event j
AttemptsOf(j) == {i \in DOMAIN published : published[i].id = j}

C23_UnloadedCallbacksAreNoOps ==
    (last.call.op \in Callbacks /\ ~last.loaded) =>
        /\ last.call.ret = "Ok"
        /\ NothingSent

\* after on_unload, with the broker channel still open and the publisher's
\* Receiver alive, a block notification returned Ok and was sent nowhere
C23_Witness ==
    /\ last.call.op = "notify_block_metadata"
    /\ ~last.loaded
    /\ mq_sender = "Some" /\ RxAlive
    /\ last.call.ret = "Ok"
    /\ NothingSent
    /\ sentLog = <<>>

\* the kind of event each callback sends on the broker channel
C25_KindOf(op) ==
    CASE op = "update_account" -> "Account"
      [] op = "notify_transaction" -> "Transaction"
      [] op = "notify_block_metadata" -> "BlockMeta"

\* C25: update_account, notify_transaction and notify_block_metadata send
\* the event on the broker channel (and to the block builder and the rpc
\* server) before the QUIC send: when the QUIC send has failed and the
\* callback has returned Err, the event has been sent on the broker channel,
\* and is enqueued there while the publisher's Receiver lives.
C25_BrokerBeforeQuic ==
    (last.call.op \in BrokerCallbacks /\ last.call.quic = "failed") =>
        /\ last.call.ret = "Err"
        /\ SentToBroker
        /\ RxAlive => last.enq # 0
        /\ last.enq # 0 => sentLog[last.enq].kind = C25_KindOf(last.call.op)
        /\ block_builder_channel => last.call.bb \in {"ok", "failed"}
        /\ rpc_server_message_channel /\ last.call.op # "notify_transaction"
             => last.call.rpc \in {"ok", "failed"}

\* the QUIC send of an account update failed after the event was enqueued
C25_Witness ==
    /\ last.call.op = "update_account"
    /\ last.call.quic = "failed"
    /\ last.call.ret = "Err"
    /\ last.enq # 0
    /\ sentLog[last.enq].kind = "Account"

\* the step of on_unload: the QUIC server is cleared and the plugin value
\* lives on (a drop of the plugin also forgets its last call)
C24_UnloadStep ==
    (quic_server /\ ~quic_server' /\ last' = last) =>
        /\ mq_sender = "Some" /\ mq_sender' = "Some"
        /\ pc' = pc /\ pc # "done"
        /\ sentLog' = sentLog /\ taken' = taken
        /\ block_builder_channel' = block_builder_channel

\* C24: on_unload clears the QUIC server only: the Sender of the broker
\* channel stays, so the publisher loop is not ended by unloading; while the
\* plugin value lives the loop never returns, and with nothing queued it
\* stays blocked in recv().
C24_UnloadKeepsPublisher ==
    /\ [][C24_UnloadStep]_vars
    /\ []((mode = "plugin" /\ mq_sender = "Some") => pc \notin {"idle", "done"})
    /\ []((mq_sender = "Some" /\ ~quic_server /\ pc = "recv"
           /\ taken = Len(sentLog)) => ~ENABLED Recv)

\* the plugin is unloaded, the broker channel is open and empty, and the
\* loop, connected, is blocked in recv()
C24_Witness ==
    /\ mode = "plugin"
    /\ ~quic_server
    /\ mq_sender = "Some"
    /\ pc = "recv" /\ connId >= 1
    /\ taken = Len(sentLog)

====
